---- MODULE Spec2Model ----
(***************************************************************************)
(* Model of geopetl/postgis.py: the batching insert engine                 *)
(* (PostgisTable.write), the geometry preparer (_prepare_geom), the value  *)
(* coercer (prepare_val) and the query builder (PostgisQuery.stmt).        *)
(*                                                                         *)
(* Text is modelled as a sequence of lexemes.  The lexeme alphabet is      *)
(* chosen so that every needle the code searches for ('NaN', 'CURVE',      *)
(* 'CIRC', 'MULTI', the single quote) is a lexeme of its own wherever it   *)
(* occurs in a text, so `x in s` is membership of a lexeme and             *)
(* `s.startswith(x)` is a test of the first lexeme.                        *)
(***************************************************************************)
EXTENDS Integers, Sequences, FiniteSets, TLC

\* Longest row stream handed to write.
MaxRows == 4
\* Largest buffer_size handed to write.
MaxBufferSize == 3

(***************************************************************************)
(* Python values                                                           *)
(***************************************************************************)
None == [t |-> "None"]
PyInt(n) == [t |-> "int", v |-> n]
PyText(s) == [t |-> "str", v |-> s]
PyBool(b) == [t |-> "bool", v |-> b]
PyList(l) == [t |-> "list", v |-> l]

\* Python truth value of a scalar (`if val:`).
Truthy(x) ==
    CASE x.t = "None" -> FALSE
      [] x.t = "int"  -> x.v # 0
      [] x.t = "str"  -> Len(x.v) > 0
      [] x.t = "list" -> Len(x.v) > 0
      [] x.t = "bool" -> x.v

Digit(d) ==
    CASE d = 0 -> "0" [] d = 1 -> "1" [] d = 2 -> "2" [] d = 3 -> "3"
      [] d = 4 -> "4" [] d = 5 -> "5" [] d = 6 -> "6" [] d = 7 -> "7"
      [] d = 8 -> "8" [] d = 9 -> "9"

RECURSIVE DecimalStr(_)
DecimalStr(n) ==
    IF n < 10 THEN <<Digit(n)>> ELSE DecimalStr(n \div 10) \o <<Digit(n % 10)>>

\* str(x)
PyStr(x) ==
    CASE x.t = "None" -> <<"None">>
      [] x.t = "int"  -> DecimalStr(x.v)
      [] x.t = "str"  -> x.v

\* `needle in s`
Contains(s, needle) == \E k \in 1..Len(s) : s[k] = needle

\* s.startswith(prefix)
StartsWith(s, prefix) == Len(s) > 0 /\ s[1] = prefix

\* s.replace(old, new); new is a text
RECURSIVE Replace(_, _, _)
Replace(s, old, new) ==
    IF s = <<>> THEN <<>>
    ELSE (IF Head(s) = old THEN new ELSE <<Head(s)>>) \o Replace(Tail(s), old, new)

\* sep.join(parts)
RECURSIVE Join(_, _)
Join(sep, parts) ==
    IF parts = <<>> THEN <<>>
    ELSE IF Len(parts) = 1 THEN parts[1]
    ELSE parts[1] \o sep \o Join(sep, Tail(parts))

\* petl.io.db_utils._quote: '"' + s.replace('"', '""') + '"'
Quote(s) == <<"\"">> \o Replace(s, "\"", <<"\"", "\"">>) \o <<"\"">>

(***************************************************************************)
(* Value coercer and geometry preparer                                     *)
(***************************************************************************)
\* PostgisTable.prepare_val for the non-geometry types and geometry.
prepare_val(val, type_) ==
    CASE type_ = "text" ->
           <<"'">> \o (IF Truthy(val) THEN Replace(PyStr(val), "'", <<"'", "'">>)
                       ELSE <<>>) \o <<"'">>
      [] type_ = "num" ->
           IF Truthy(val) THEN PyStr(val) ELSE <<"NULL">>
      [] type_ = "date" ->
           IF Truthy(val) THEN <<"'">> \o PyStr(val) \o <<"'">> ELSE <<"NULL">>
      [] type_ = "geometry" -> PyStr(val)

\* PostgisTable._prepare_geom
prepare_geom(wkt, srid, transform_srid, multi_geom) ==
    LET g0 == <<"ST_GeomFromText('">> \o PyStr(wkt) \o <<"', ">> \o PyStr(srid) \o <<")">>
        g1 == IF Contains(g0, "NaN")
              THEN <<"ST_Force_2D(">> \o Replace(g0, "NaN", <<"0">>) \o <<")">>
              ELSE g0
        g2 == IF Contains(g1, "CURVE") \/ StartsWith(g1, "CIRC")
              THEN <<"ST_CurveToLine(">> \o g1 \o <<")">>
              ELSE g1
        g3 == IF Truthy(transform_srid) /\ srid # transform_srid
              THEN <<"ST_Transform(">> \o g2 \o <<", ">> \o PyStr(transform_srid) \o <<")">>
              ELSE g2
        g4 == IF multi_geom THEN <<"ST_Multi(">> \o g3 \o <<")">> ELSE g3
    IN g4

(***************************************************************************)
(* Table descriptor                                                        *)
(***************************************************************************)
\* maps db field types to more generic internal ones
FIELD_TYPE_MAP ==
    [x \in {"integer", "numeric", "double precision", "text",
            "character varying", "date", "USER-DEFINED"} |->
        CASE x \in {"integer", "numeric", "double precision"} -> "num"
          [] x \in {"text", "character varying"} -> "text"
          [] x = "date" -> "date"
          [] x = "USER-DEFINED" -> "geometry"]

\* What the database holds about a table: the rows of information_schema.columns,
\* Find_SRID and geometry_columns.type.
ParcelColumns ==
    << [name |-> "id", type |-> "integer"],
       [name |-> "name", type |-> "character varying"],
       [name |-> "geom", type |-> "USER-DEFINED"] >>

OwnerColumns ==
    << [name |-> "id", type |-> "integer"],
       [name |-> "name", type |-> "text"] >>

Tables ==
    { [schema |-> <<"public">>, name |-> <<"parcels">>, columns |-> ParcelColumns,
       find_srid |-> PyInt(4326), geom_type |-> <<"MULTI", "POLYGON">>],
      [schema |-> <<"public">>, name |-> <<"lots">>, columns |-> ParcelColumns,
       find_srid |-> PyInt(4326), geom_type |-> <<"POLYGON">>],
      [schema |-> <<"public">>, name |-> <<"owners">>, columns |-> OwnerColumns,
       find_srid |-> None, geom_type |-> <<>>] }

\* PostgisTable.metadata
metadata(tbl) ==
    [k \in 1..Len(tbl.columns) |->
        [name |-> tbl.columns[k].name, type |-> FIELD_TYPE_MAP[tbl.columns[k].type]]]

\* PostgisTable.fields
fields(tbl) == [k \in 1..Len(tbl.columns) |-> metadata(tbl)[k].name]

IsGeometry(x) == x.type = "geometry"

\* PostgisTable.geom_field (no table of Tables has two geometry columns)
geom_field(tbl) ==
    LET f == SelectSeq(metadata(tbl), IsGeometry)
    IN IF Len(f) = 0 THEN None ELSE PyText(<<f[1].name>>)

\* PostgisTable.get_srid
get_srid(tbl) == tbl.find_srid

\* PostgisTable.geom_type
geom_type(tbl) == tbl.geom_type

\* PostgisTable.non_geom_fields
non_geom_fields(tbl) ==
    LET gf == geom_field(tbl)
        NotGeom(x) == ~(Truthy(gf) /\ x = gf.v[1])
    IN SelectSeq(fields(tbl), NotGeom)

\* PostgisTable.name_with_schema
name_with_schema(tbl) ==
    IF Len(tbl.schema) > 0
    THEN Join(<<".">>, <<Quote(tbl.schema), Quote(tbl.name)>>)
    ELSE tbl.name

(***************************************************************************)
(* Inputs of write                                                         *)
(***************************************************************************)
\* Rows the row source can deliver; a row is a record keyed by field name.
RowPool ==
    { [id |-> PyInt(1), name |-> PyText(<<"O", "'", "Brien">>),
       geom |-> PyText(<<"POLYGON", "((0 0, 1 0, 1 1, 0 0))">>), bogus |-> None],
      [id |-> PyInt(0), name |-> None,
       geom |-> PyText(<<"MULTI", "POLYGON", "(((0 0, 2 0, 2 2, 0 0)))">>), bogus |-> None] }

\* Headers the row source can have.
HeaderPool ==
    { <<"id", "name", "geom">>, <<"name", "geom">>, <<"id", "name">>,
      <<"id", "name", "geom", "bogus">>, <<"id", "bogus">> }

RECURSIVE SeqsUpTo(_, _)
SeqsUpTo(S, n) ==
    IF n = 0 THEN {<<>>}
    ELSE LET shorter == SeqsUpTo(S, n - 1)
         IN shorter \cup {Append(s, x) : s \in shorter, x \in S}

RowStreams == SeqsUpTo(RowPool, MaxRows)

InSeq(x, s) == \E k \in 1..Len(s) : s[k] = x

\* re.match('[A-Z]+', s).group(): the leading run of upper-case letters.
UpperLexemes ==
    {"MULTI", "POLYGON", "POINT", "LINESTRING", "CIRC", "ULARSTRING",
     "COMPOUND", "CURVE"}

RECURSIVE UpperRun(_)
UpperRun(s) ==
    IF s = <<>> \/ Head(s) \notin UpperLexemes THEN <<>>
    ELSE <<Head(s)>> \o UpperRun(Tail(s))

(***************************************************************************)
(* State                                                                   *)
(***************************************************************************)
VARIABLES
    table,        \* the PostgisTable write is called on
    header,       \* rows.header()
    rows,         \* the records of the row stream
    from_srid,    \* argument of write
    buffer_size,  \* argument of write
    pc,           \* position in write
    err,          \* the exception write raised, if any
    i,            \* loop index of `for i, row in enumerate(rows)`
    srid,         \* local of write
    multi_geom,   \* local of write
    type_map,     \* local of write
    val_rows,     \* local of write
    log,          \* calls made on the database handle: execute and commit
    g_in,         \* arguments of a _prepare_geom call
    g_out,        \* its result
    q_in,         \* fields of a PostgisQuery
    q_out         \* result of its stmt()

writeVars == <<table, header, rows, from_srid, buffer_size, pc, err, i, srid,
               multi_geom, type_map, val_rows, log>>
geomVars == <<g_in, g_out>>
queryVars == <<q_in, q_out>>
vars == <<writeVars, geomVars, queryVars>>

(***************************************************************************)
(* PostgisTable.write                                                      *)
(***************************************************************************)
NoQuery == [fields |-> None, return_geom |-> None, to_srid |-> None,
            where |-> None, limit |-> None, table |-> None]
NoGeom == [wkt |-> None, srid |-> None, transform_srid |-> None, multi_geom |-> FALSE]

\* State at the call of write(rows, from_srid, buffer_size).
Init ==
    /\ table \in Tables
    /\ header \in HeaderPool
    /\ rows \in RowStreams
    /\ from_srid \in {None, PyInt(2272)}
    /\ buffer_size \in 1..MaxBufferSize
    /\ pc = "start"
    /\ err = "none"
    /\ i = 0
    /\ srid = None
    /\ multi_geom = FALSE
    /\ type_map = <<>>
    /\ val_rows = <<>>
    /\ log = <<>>
    /\ g_in = NoGeom /\ g_out = <<>>
    /\ q_in = NoQuery /\ q_out = <<>>

Raise(e) ==
    /\ pc' = "raised"
    /\ err' = e

\* Mutant of NeedsMulti: the first row's geometry type is not looked at.
NeedsMulti_TableOnly(table_geom_type, row_geom_type) ==
    StartsWith(table_geom_type, "MULTI")

\* Lines 348-353: must the geometry be cast to a MULTI type?
NeedsMulti(table_geom_type, row_geom_type) ==
    StartsWith(table_geom_type, "MULTI") /\ ~StartsWith(row_geom_type, "MULTI")

\* Lines 356-361: the type of a header field, looked up in the metadata.
TypeOf(tbl, field) ==
    LET Named(x) == x.name = field
        hits == SelectSeq(metadata(tbl), Named)
    IN IF Len(hits) = 0 THEN "IndexError" ELSE hits[1].type

\* Lines 333-382: everything write does before its loop.
WriteSetup ==
    /\ pc = "start"
    /\ LET gf == geom_field(table)
       IN IF Truthy(gf) /\ Len(rows) = 0
          THEN \* rows[0] of an empty stream
               Raise("IndexError") /\ UNCHANGED <<srid, multi_geom, type_map>>
          ELSE IF Truthy(gf) /\ ~InSeq(gf.v[1], header)
          THEN \* rows[0][geom_field], the stream has no such field
               Raise("KeyError") /\ UNCHANGED <<srid, multi_geom, type_map>>
          ELSE IF Truthy(gf) /\ rows[1][gf.v[1]].t # "str"
          THEN \* re.match on a value that is no string
               Raise("TypeError") /\ UNCHANGED <<srid, multi_geom, type_map>>
          ELSE IF Truthy(gf) /\ UpperRun(rows[1][gf.v[1]].v) = <<>>
          THEN \* re.match found nothing: None.group()
               Raise("AttributeError") /\ UNCHANGED <<srid, multi_geom, type_map>>
          ELSE IF \E k \in 1..Len(header) : TypeOf(table, header[k]) = "IndexError"
          THEN Raise("ValueError") /\ UNCHANGED <<srid, multi_geom, type_map>>
          ELSE /\ srid' = IF Truthy(gf)
                          THEN (IF Truthy(from_srid) THEN from_srid ELSE get_srid(table))
                          ELSE srid
               /\ multi_geom' = IF Truthy(gf)
                                THEN NeedsMulti(geom_type(table),
                                                UpperRun(rows[1][gf.v[1]].v))
                                ELSE multi_geom
               /\ type_map' = [k \in 1..Len(header) |->
                                  [field |-> header[k], type |-> TypeOf(table, header[k])]]
               /\ pc' = "loop"
               /\ err' = err
    /\ UNCHANGED <<table, header, rows, from_srid, buffer_size, i, val_rows, log>>
    /\ UNCHANGED <<geomVars, queryVars>>

\* Lines 385-394: the value tuple of one row.
ValRow(row, tmap, gf, sr, mg) ==
    [k \in 1..Len(tmap) |->
        IF tmap[k].type = "geometry"
        THEN prepare_geom(row[gf.v[1]], sr, None, mg)
        ELSE prepare_val(row[tmap[k].field], tmap[k].type)]

\* Lines 364-365
InsertPrefix(tbl, hdr) ==
    <<"INSERT INTO ">> \o tbl.name \o <<" (">>
        \o Join(<<", ">>, [k \in 1..Len(hdr) |-> <<hdr[k]>>]) \o <<") VALUES ">>

\* Lines 400-402 and 414-416
StmtText(prefix, vrows) ==
    prefix \o Join(<<", ">>,
                   [k \in 1..Len(vrows) |-> <<"(">> \o Join(<<", ">>, vrows[k]) \o <<")">>])

\* The database's answer to an INSERT statement: an INSERT whose VALUES list is
\* empty is a syntax error; any other statement it may accept or reject
\* (constraint violation, malformed literal).
DbAccepts(vrows) == IF Len(vrows) = 0 THEN {FALSE} ELSE BOOLEAN

Executed(vrows, ok) ==
    [op |-> "execute", tuples |-> vrows,
     text |-> StmtText(InsertPrefix(table, header), vrows), ok |-> ok]

Committed == [op |-> "commit", tuples |-> <<>>, text |-> <<>>, ok |-> TRUE]

\* Lines 384-398: one iteration of the loop up to the test for shipping a chunk.
LoopRow ==
    /\ pc = "loop"
    /\ i < Len(rows)
    /\ val_rows' = Append(val_rows,
                          ValRow(rows[i + 1], type_map, geom_field(table), srid, multi_geom))
    /\ IF i % buffer_size = 0
       THEN pc' = "ship" /\ i' = i
       ELSE pc' = "loop" /\ i' = i + 1
    /\ UNCHANGED <<table, header, rows, from_srid, buffer_size, err, srid,
                   multi_geom, type_map, log>>
    /\ UNCHANGED <<geomVars, queryVars>>

\* Mutant of ShipExecute: the database's error is swallowed, the loop goes on.
ShipExecute_Swallow ==
    /\ pc = "ship"
    /\ \E ok \in DbAccepts(val_rows) :
          log' = Append(log, Executed(val_rows, ok))
    /\ pc' = "ship_commit"
    /\ UNCHANGED <<table, header, rows, from_srid, buffer_size, err, i, srid,
                   multi_geom, type_map, val_rows>>
    /\ UNCHANGED <<geomVars, queryVars>>

\* Lines 400-407: execute the chunk; an error of the database is re-raised.
ShipExecute ==
    /\ pc = "ship"
    /\ \E ok \in DbAccepts(val_rows) :
          /\ log' = Append(log, Executed(val_rows, ok))
          /\ IF ok THEN pc' = "ship_commit" /\ err' = err
                   ELSE Raise("DatabaseError")
    /\ UNCHANGED <<table, header, rows, from_srid, buffer_size, i, srid,
                   multi_geom, type_map, val_rows>>
    /\ UNCHANGED <<geomVars, queryVars>>

\* Mutant of ShipCommit: the chunk is not committed, only the last commit of
\* write is left.
ShipCommit_NoCommit ==
    /\ pc = "ship_commit"
    /\ val_rows' = <<>>
    /\ i' = i + 1
    /\ pc' = "loop"
    /\ UNCHANGED <<table, header, rows, from_srid, buffer_size, err, srid,
                   multi_geom, type_map, log>>
    /\ UNCHANGED <<geomVars, queryVars>>

\* Mutant of ShipCommit: val_rows is not reset after the chunk is shipped.
ShipCommit_KeepRows ==
    /\ pc = "ship_commit"
    /\ log' = Append(log, Committed)
    /\ i' = i + 1
    /\ pc' = "loop"
    /\ UNCHANGED <<table, header, rows, from_srid, buffer_size, err, srid,
                   multi_geom, type_map, val_rows>>
    /\ UNCHANGED <<geomVars, queryVars>>

\* Lines 408-411: commit, reset the chunk, go on with the next row.
ShipCommit ==
    /\ pc = "ship_commit"
    /\ log' = Append(log, Committed)
    /\ val_rows' = <<>>
    /\ i' = i + 1
    /\ pc' = "loop"
    /\ UNCHANGED <<table, header, rows, from_srid, buffer_size, err, srid,
                   multi_geom, type_map>>
    /\ UNCHANGED <<geomVars, queryVars>>

\* Lines 413-417: after the loop, execute what is left in val_rows.
RemainingExecute ==
    /\ pc = "loop"
    /\ i = Len(rows)
    /\ \E ok \in DbAccepts(val_rows) :
          /\ log' = Append(log, Executed(val_rows, ok))
          /\ IF ok THEN pc' = "rest_commit" /\ err' = err
                   ELSE Raise("DatabaseError")
    /\ UNCHANGED <<table, header, rows, from_srid, buffer_size, i, srid,
                   multi_geom, type_map, val_rows>>
    /\ UNCHANGED <<geomVars, queryVars>>

\* Line 418: the last commit; write returns.
RemainingCommit ==
    /\ pc = "rest_commit"
    /\ log' = Append(log, Committed)
    /\ pc' = "done"
    /\ UNCHANGED <<table, header, rows, from_srid, buffer_size, err, i, srid,
                   multi_geom, type_map, val_rows>>
    /\ UNCHANGED <<geomVars, queryVars>>

Next ==
    \/ WriteSetup
    \/ LoopRow
    \/ ShipExecute
    \/ ShipCommit
    \/ RemainingExecute
    \/ RemainingCommit

Spec == Init /\ [][Next]_vars

(***************************************************************************)
(* PostgisTable._prepare_geom as an operation of its own                   *)
(***************************************************************************)
\* No write call is in progress.
IdleWrite ==
    /\ table = None /\ header = <<>> /\ rows = <<>> /\ from_srid = None
    /\ buffer_size = 1 /\ pc = "idle" /\ err = "none" /\ i = 0 /\ srid = None
    /\ multi_geom = FALSE /\ type_map = <<>> /\ val_rows = <<>> /\ log = <<>>

WktPool ==
    { <<"POLYGON", "((0 0, 1 0, 1 1, 0 0))">>,
      <<"MULTI", "POLYGON", "(((0 0, 2 0, 2 2, 0 0)))">>,
      <<"POINT", "(1 2 ", "NaN", ")">>,
      <<"LINESTRING", "(0 0 ", "NaN", ", 1 1 ", "NaN", ")">>,
      <<"CIRC", "ULARSTRING", "(0 0, 1 1, 2 0)">>,
      <<"CIRC", "ULARSTRING", "(0 0 ", "NaN", ", 1 1 ", "NaN", ", 2 0 ", "NaN", ")">>,
      <<"COMPOUND", "CURVE", "(", "CIRC", "ULARSTRING", "(0 0, 1 1, 2 0)", ", (2 0, 3 0))">>,
      <<"CURVE", "POLYGON", "(", "CIRC", "ULARSTRING", "(0 0, 1 1, 2 0, 1 -1, 0 0)", ")">>,
      <<"MULTI", "CURVE", "((0 0, 1 1), ", "CIRC", "ULARSTRING", "(1 1, 2 2, 3 1)", ")">> }

InitGeom ==
    /\ IdleWrite
    /\ g_in \in [wkt : {PyText(w) : w \in WktPool},
                 srid : {PyInt(4326), PyInt(2272)},
                 transform_srid : {None, PyInt(4326), PyInt(3857)},
                 multi_geom : BOOLEAN]
    /\ g_out = <<>>
    /\ q_in = NoQuery /\ q_out = <<>>

\* A call _prepare_geom(geom, srid, transform_srid, multi_geom).
PrepareGeom ==
    /\ g_out = <<>>
    /\ g_out' = prepare_geom(g_in.wkt, g_in.srid, g_in.transform_srid, g_in.multi_geom)
    /\ UNCHANGED <<g_in, writeVars, queryVars>>

NextGeom == PrepareGeom

SpecGeom == InitGeom /\ [][NextGeom]_vars

(***************************************************************************)
(* PostgisQuery.stmt                                                       *)
(***************************************************************************)
\* PostgisTable.wkt_getter
wkt_getter(gfield, to_srid) ==
    LET geom_getter == IF Truthy(to_srid)
                       THEN <<"ST_Transform(">> \o gfield \o <<", ">> \o PyStr(to_srid) \o <<")">>
                       ELSE gfield
    IN <<"ST_AsText(">> \o geom_getter \o <<") AS ">> \o gfield

\* PostgisQuery.stmt
stmt(q) ==
    LET names == IF q.fields.t = "None" THEN non_geom_fields(q.table) ELSE q.fields.v
        quoted == [k \in 1..Len(names) |-> Quote(<<names[k]>>)]
        gf == geom_field(q.table)
        selected == IF Truthy(gf) /\ Truthy(q.return_geom)
                    THEN Append(quoted, wkt_getter(gf.v, q.to_srid))
                    ELSE quoted
        s0 == <<"SELECT ">> \o Join(<<", ">>, selected) \o <<" FROM ">>
                  \o name_with_schema(q.table)
        s1 == IF Truthy(q.where) THEN s0 \o <<" WHERE ">> \o PyStr(q.where) ELSE s0
        s2 == IF Truthy(q.limit) THEN s1 \o <<" LIMIT ">> \o PyStr(q.limit) ELSE s1
    IN s2

\* PostgisQuery.__init__: the queries a caller can construct.
Queries ==
    [table : Tables,
     fields : {None, PyList(<<"id">>), PyList(<<"name", "id">>)},
     return_geom : {None, PyBool(TRUE), PyBool(FALSE)},
     to_srid : {None, PyInt(3857)},
     where : {None, PyText(<<"x > 1">>)},
     limit : {None, PyInt(0), PyInt(1), PyInt(25)}]

InitQuery ==
    /\ IdleWrite
    /\ g_in = NoGeom /\ g_out = <<>>
    /\ q_in \in Queries
    /\ q_out = <<>>

\* A call of stmt() on the query.
BuildStmt ==
    /\ q_out = <<>>
    /\ q_out' = stmt(q_in)
    /\ UNCHANGED <<q_in, writeVars, geomVars>>

NextQuery == BuildStmt

SpecQuery == InitQuery /\ [][NextQuery]_vars

(***************************************************************************)
(* Properties                                                              *)
(***************************************************************************)
IsExecute(e) == e.op = "execute"

\* The execute calls of the log, in order.
Executes == SelectSeq(log, IsExecute)

NumCommits == Cardinality({k \in 1..Len(log) : log[k].op = "commit"})

Ceil(l, b) == (l + b - 1) \div b

HeaderKnown == \A k \in 1..Len(header) : InSeq(header[k], fields(table))

RECURSIVE ConcatTuples(_)
ConcatTuples(es) ==
    IF es = <<>> THEN <<>> ELSE Head(es).tuples \o ConcatTuples(Tail(es))

\* C1: a write of L >= 1 rows with batch size B > 0 that returns has executed
\* exactly ceil(L / B) INSERT statements.
C1_InsertCountIsCeil ==
    (pc = "done" /\ Len(rows) >= 1) =>
        Len(Executes) = Ceil(Len(rows), buffer_size)

\* C2: a write of an empty row stream (whose header names only columns of the
\* table) executes no INSERT statement, commits nothing and raises no error.
C2_EmptyStreamDoesNothing ==
    (pc # "idle" /\ Len(rows) = 0 /\ HeaderKnown) =>
        (log = <<>> /\ pc # "raised")

IsAccepted(e) == e.op = "execute" /\ e.ok

\* The INSERT statements the database accepted, in order.
Accepted == SelectSeq(log, IsAccepted)

\* C3: for L >= 1 rows, no executed INSERT statement holds zero tuples or more
\* than B tuples; when write returns, every statement but the last holds
\* exactly B tuples and the last holds L mod B tuples (B when B divides L).
C3_BatchSizes ==
    (pc # "idle" /\ Len(rows) >= 1) =>
        /\ \A k \in 1..Len(Accepted) :
              Len(Accepted[k].tuples) >= 1 /\ Len(Accepted[k].tuples) <= buffer_size
        /\ pc = "done" =>
              /\ \A k \in 1..(Len(Accepted) - 1) : Len(Accepted[k].tuples) = buffer_size
              /\ Len(Accepted) >= 1
              /\ Len(Accepted[Len(Accepted)].tuples) =
                    (IF Len(rows) % buffer_size = 0 THEN buffer_size
                     ELSE Len(rows) % buffer_size)

\* C4: every accepted INSERT is followed by exactly one commit before the next
\* INSERT and before write returns, and every commit directly follows an
\* accepted INSERT: at most one batch is executed and not yet committed.
C4_CommitAfterEachInsert ==
    /\ \A k \in 1..Len(log) :
          /\ (log[k].op = "execute" /\ log[k].ok) =>
                IF k < Len(log) THEN log[k + 1].op = "commit"
                ELSE pc \in {"ship_commit", "rest_commit"}
          /\ log[k].op = "commit" =>
                (k > 1 /\ log[k - 1].op = "execute" /\ log[k - 1].ok)
    /\ Len(Executes) - NumCommits \in {0, 1}
    /\ pc = "done" => (Len(log) > 0 /\ log[Len(log)].op = "commit")

\* C4 witness: write returned after at least two INSERT/commit pairs.
C4_Witness == pc = "done" /\ NumCommits >= 2 /\ Len(Executes) = NumCommits

\* C5: when the database rejects the N-th INSERT, write raises at once: that
\* statement is the last call on the database (no commit of batch N, no later
\* INSERT), and every earlier INSERT was accepted and committed.
C5_RejectedInsertStops ==
    \A k \in 1..Len(log) :
        (log[k].op = "execute" /\ ~log[k].ok) =>
            /\ k = Len(log)
            /\ pc = "raised" /\ err = "DatabaseError"
            /\ \A j \in 1..(k - 1) :
                  log[j].op = "execute" => (log[j].ok /\ log[j + 1].op = "commit")

\* C5 witness: the database rejected a non-empty third INSERT after two
\* committed batches.
C5_Witness ==
    /\ pc = "raised"
    /\ Len(log) = 5
    /\ ~log[5].ok /\ Len(log[5].tuples) > 0
    /\ log[2].op = "commit" /\ log[4].op = "commit"

\* C6: when write returns without error, the value tuples of the executed
\* INSERT statements, concatenated in execution order, are the value tuples of
\* the input rows in arrival order: no row dropped, duplicated or reordered.
C6_RowsInOrder ==
    pc = "done" =>
        ConcatTuples(Executes) =
            [k \in 1..Len(rows) |->
                ValRow(rows[k], type_map, geom_field(table), srid, multi_geom)]

\* C6 witness: write returned after sending four rows, not all alike, in three
\* statements.
C6_Witness ==
    /\ pc = "done"
    /\ Len(rows) = 4 /\ rows[2] # rows[3]
    /\ Len(Executes) = 3

\* C7: when the header holds a field that is no column of the table, write
\* fails with the unknown-column error (ValueError) during setup, before any
\* INSERT is executed and before any commit.
C7_UnknownColumnFailsInSetup ==
    (pc # "idle" /\ ~HeaderKnown) =>
        /\ pc \in {"start", "raised"}
        /\ log = <<>>
        /\ pc = "raised" => err = "ValueError"

Position(s, lexeme) == CHOOSE k \in 1..Len(s) : s[k] = lexeme

\* C8: for a WKT that is a CIRCULARSTRING or contains CURVE, the expression
\* _prepare_geom returns has ST_CurveToLine( around ST_GeomFromText( and inside
\* any ST_Transform( or ST_Multi( wrapper.
C8_CurvesAreLinearized ==
    (g_out # <<>> /\ (StartsWith(g_in.wkt.v, "CIRC") \/ Contains(g_in.wkt.v, "CURVE"))) =>
        /\ Contains(g_out, "ST_CurveToLine(")
        /\ Position(g_out, "ST_CurveToLine(") < Position(g_out, "ST_GeomFromText('")
        /\ \A w \in {"ST_Transform(", "ST_Multi("} :
              Contains(g_out, w) => Position(g_out, w) < Position(g_out, "ST_CurveToLine(")

\* The statement C9 describes for a query without `fields`.
C9_Expected(q) ==
    LET names == non_geom_fields(q.table)
        gf == geom_field(q.table)
        projection ==
            <<"ST_AsText(">>
            \o (IF q.to_srid # None
                THEN <<"ST_Transform(">> \o gf.v \o <<", ">> \o PyStr(q.to_srid) \o <<")">>
                ELSE gf.v)
            \o <<") AS ">> \o gf.v
        selected == [k \in 1..Len(names) |-> Quote(<<names[k]>>)]
                    \o (IF gf # None /\ q.return_geom = PyBool(TRUE)
                        THEN <<projection>> ELSE <<>>)
    IN <<"SELECT ">> \o Join(<<", ">>, selected) \o <<" FROM ">> \o name_with_schema(q.table)
       \o (IF q.where # None THEN <<" WHERE ">> \o PyStr(q.where) ELSE <<>>)
       \o (IF q.limit # None THEN <<" LIMIT ">> \o PyStr(q.limit) ELSE <<>>)

\* C9: without `fields`, stmt() is SELECT of the non-geometry columns, plus the
\* geometry projection iff the table has a geometry column and return_geom is
\* true (in ST_Transform iff to_srid is given), FROM the table, then WHERE iff
\* a where clause is supplied, then LIMIT iff a limit is supplied.
C9_StatementShape ==
    (q_out # <<>> /\ q_in.fields = None) => q_out = C9_Expected(q_in)

\* Index of the geometry field in the header, hence in every value tuple.
GeomIdx == CHOOSE k \in 1..Len(header) : header[k] = "geom"

\* The value tuples write has built so far: shipped ones and those in val_rows.
AllTuples == ConcatTuples(Executes) \o (IF pc \in {"loop", "ship"} THEN val_rows ELSE <<>>)

\* C10: in one write on a table with a geometry column, every row's geometry
\* expression has ST_Multi( as its outermost wrapper iff the declared geometry
\* type starts with MULTI and the FIRST row's keyword does not, whatever the
\* row's own type; and no geometry expression holds ST_Transform.
C10_MultiDecidedFromFirstRow ==
    (pc # "idle" /\ Truthy(geom_field(table))) =>
           (\A k \in 1..Len(AllTuples) :
                LET e == AllTuples[k][GeomIdx]
                IN /\ (e[1] = "ST_Multi(" /\ e[Len(e)] = ")")
                        <=> (StartsWith(table.geom_type, "MULTI")
                             /\ ~StartsWith(rows[1].geom.v, "MULTI"))
                   /\ ~Contains(e, "ST_Transform("))

\* C10 witness: a MULTIPOLYGON row that follows a POLYGON first row was shipped
\* wrapped in ST_Multi( all the same.
C10_Witness ==
    /\ pc = "done"
    /\ Truthy(geom_field(table))
    /\ \E k \in 2..Len(AllTuples) :
          LET e == AllTuples[k][GeomIdx]
          IN e[1] = "ST_Multi(" /\ Contains(e, "MULTI") /\ ~Contains(AllTuples[1][GeomIdx], "MULTI")

====
